---- MODULE Spec2Model ----
(***************************************************************************)
(* Model of the two utilities of the repository:                           *)
(*   bin/json_to_checkpoint.py       (JSON model -> pytorch checkpoint)    *)
(*   misc/calibrate_qscores_byread.py (q-score calibration)                *)
(* Each function is an operator computed as the code computes it; main()   *)
(* of the converter is a small state machine.                              *)
(***************************************************************************)
EXTENDS Integers, Sequences, FiniteSets, TLC

VARIABLES
    \* ---- json_to_checkpoint.py: main()
    jsn_model,       \* jsn_model['sublayers'], a sequence of layer descriptors
    main_pc,         \* position of main(): "check", "build", "save", "done", "exited", "raised"
    network,         \* layers returned by parse_sublayer so far, in order
    parse_calls,     \* number of calls of parse_sublayer made
    output_written,  \* number of torch.save calls made
    exit_status,     \* "running" until the process ends, then its exit code (0 or 1)
    uncaught,        \* "none", or the name of the exception that ended the run
    \* ---- json_to_checkpoint.py: set_params() called on its own
    sp_layer,        \* the layer handed to set_params
    sp_jsn_params,   \* the JSON params mapping handed to set_params
    sp_result,       \* NoResult before the call, then what set_params returned
    \* ---- json_to_checkpoint.py: the collapse alphabet of parse_sublayer
    ca_output_alphabet,  \* sublayer['output_alphabet'], a sequence of characters
    ca_can_nmods,        \* sublayer['can_nmods']
    ca_result,           \* NoCollapse before the loop has run, then its result
    \* ---- calibrate_qscores_byread.py: filter_data()
    fd_reads,        \* the four index-aligned input arrays, one record per read
    fd_result,       \* NoFilter before the call, then what filter_data did
    \* ---- calibrate_qscores_byread.py: merge_align_fastq_data()
    mg_fastq_ids,    \* fastq_ids
    mg_alignments,   \* alignment_ids, alignment_accuracies, alignment_lens, one record per row
    mg_result,       \* NoMerge before the call, then the two returned arrays
    \* ---- calibrate_qscores_byread.py: the __main__ block up to the files being read
    args,            \* the parsed command line: input_directory, fastq, alignment_summary
    dir_listing,     \* the names os.listdir(args.input_directory) returns
    fastqlist,       \* [none, files]: None, or the list of quality files
    alignment_summary_file,  \* the alignment summary path, Unassigned until set
    printed,         \* the notices printed so far
    read_called,     \* whether read_fastqs has been called
    files_read,      \* the list read_fastqs was called with
    cli_pc,          \* "directory", "fastq", "summary", "check", "read", "align", "done", "raised"
    \* ---- calibrate_qscores_byread.py: get_alignment_data()
    t_columns,       \* the column names of the table read from the alignment summary
    t_rows,          \* its rows, each a record over all column names in use
    gad_result,      \* NoAlignmentData before the call, then what the call did
    \* ---- calibrate_qscores_byread.py: read_fastqs()
    fq_fastqlist,    \* fastqlist: the files, each the sequence of its records' score vectors
    fq_maxreads,     \* maxreads: PyNone or an integer
    fq_file,         \* index of the file the outer loop is at
    fq_record,       \* index of the record the inner loop reads next
    read_id_list,
    mean_qscore_list,
    length_list,
    fq_pc,           \* "loop" while the loops run, "returned" after the return
    \* ---- calibrate_qscores_byread.py: single_read_accuracy_scatter() and its caller
    sc_accuracies,   \* accuracies, in parts per AccuracyScale
    sc_meanqs,       \* meanqs
    sc_max_alignment_score,  \* max_alignment_score
    sc_y,            \* the local y: the empirical quality scores
    sc_fit,          \* NoFit, then what calculate_regression was given and returned
    sc_returned,     \* NoPair, then the tuple single_read_accuracy_scatter returned
    sc_report,       \* the best-fit lines __main__ has printed, each a name and a value
    sc_pc            \* "scores", "fit", "return", "report", "done"

convVars == <<jsn_model, main_pc, network, parse_calls, output_written, exit_status, uncaught>>
spVars == <<sp_layer, sp_jsn_params, sp_result>>
caVars == <<ca_output_alphabet, ca_can_nmods, ca_result>>
fdVars == <<fd_reads, fd_result>>
mgVars == <<mg_fastq_ids, mg_alignments, mg_result>>
cliVars == <<args, dir_listing, fastqlist, alignment_summary_file, printed, read_called,
             files_read, cli_pc>>
gadVars == <<t_columns, t_rows, gad_result>>
fqVars == <<fq_fastqlist, fq_maxreads, fq_file, fq_record, read_id_list, mean_qscore_list,
            length_list, fq_pc>>
scVars == <<sc_accuracies, sc_meanqs, sc_max_alignment_score, sc_y, sc_fit, sc_returned,
            sc_report, sc_pc>>
vars == <<convVars, spVars, caVars, fdVars, mgVars, cliVars, gadVars, fqVars, scVars>>

\* the variables of the other functions, which a step of one function leaves alone
convOthers == <<spVars, caVars, fdVars, mgVars, cliVars, gadVars, fqVars, scVars>>
spOthers == <<convVars, caVars, fdVars, mgVars, cliVars, gadVars, fqVars, scVars>>
caOthers == <<convVars, spVars, fdVars, mgVars, cliVars, gadVars, fqVars, scVars>>
fdOthers == <<convVars, spVars, caVars, mgVars, cliVars, gadVars, fqVars, scVars>>
mgOthers == <<convVars, spVars, caVars, fdVars, cliVars, gadVars, fqVars, scVars>>
cliOthers == <<convVars, spVars, caVars, fdVars, mgVars, gadVars, fqVars, scVars>>
gadOthers == <<convVars, spVars, caVars, fdVars, mgVars, cliVars, fqVars, scVars>>
fqOthers == <<convVars, spVars, caVars, fdVars, mgVars, cliVars, gadVars, scVars>>
scOthers == <<convVars, spVars, caVars, fdVars, mgVars, cliVars, gadVars, fqVars>>

\* ------------------------------------------------------------------ bounds
MaxLayers == 3
MaxParams == 3
MaxAlphabet == 5
MaxBases == 4
MaxMods == 1
MaxFilterReads == 3
MaxAlignments == 3
MaxRows == 2
MaxFiles == 3
MaxRecords == 2
MaxMaxreads == 3
MaxScatterReads == 3

\* ------------------------------------------------------------------ helpers
Range(s) == {s[i] : i \in 1..Len(s)}

RECURSIVE SeqsUpTo(_, _)
SeqsUpTo(S, n) ==
    IF n = 0 THEN {<<>>}
    ELSE LET shorter == SeqsUpTo(S, n - 1)
         IN shorter \cup {Append(s, x) : s \in {t \in shorter : Len(t) = n - 1}, x \in S}

SeqsNoRepeat(S, n) ==
    {s \in SeqsUpTo(S, n) : \A i, j \in 1..Len(s) : i # j => s[i] # s[j]}

\* ------------------------------------------------------------------ converter
COMPATIBLE_LAYERS ==
    {"convolution", "GruMod", "reverse", "GlobalNormTwoState", "GlobalNormTwoStateCatMod"}

\* re.search(pattern, layer_name) for the patterns and the parameter names in use
ReSearch(pattern, layer_name) ==
    CASE pattern = "weight_ih" ->
            layer_name \in {"cudnn_gru.weight_ih_l0", "layer.cudnn_gru.weight_ih_l0"}
      [] pattern = "weight_hh" ->
            layer_name \in {"cudnn_gru.weight_hh_l0", "layer.cudnn_gru.weight_hh_l0"}
      [] pattern = "bias_ih" ->
            layer_name \in {"cudnn_gru.bias_ih_l0", "layer.cudnn_gru.bias_ih_l0"}
      [] pattern = "bias_hh" ->
            layer_name \in {"cudnn_gru.bias_hh_l0", "layer.cudnn_gru.bias_hh_l0"}
      [] pattern = "weight" ->
            layer_name \in {"cudnn_gru.weight_ih_l0", "layer.cudnn_gru.weight_ih_l0",
                            "cudnn_gru.weight_hh_l0", "layer.cudnn_gru.weight_hh_l0",
                            "conv.weight", "linear.weight"}
      [] pattern = "bias" ->
            layer_name \in {"cudnn_gru.bias_ih_l0", "layer.cudnn_gru.bias_ih_l0",
                            "cudnn_gru.bias_hh_l0", "layer.cudnn_gru.bias_hh_l0",
                            "conv.bias", "linear.bias"}
      [] OTHER -> FALSE

\* A JSON array is [key, groups, rows]: the key it is stored under (standing
\* for its content), the number of groups along axis 0 and the rows per group.
\* A tensor is [src, dim0]: the content it holds and its size along axis 0.
\* torch.Tensor(np.concatenate(x)): the groups are joined along axis 0
TorchConcatenate(x) == [src |-> x.key, dim0 |-> x.groups * x.rows]

\* torch.Tensor(np.array(x)): the array as stored
TorchArray(x) == [src |-> x.key, dim0 |-> x.groups]

\* the local jsn_layer_params before any branch has assigned it
Unbound == [src |-> "unbound", dim0 |-> 0]

\* a parameter of a freshly constructed layer
InitTensor(n) == [src |-> "init", dim0 |-> n]

\* One pass of the loop body's if/elif chain: what jsn_layer_params holds after
\* the chain, given what it held before (prev); "exit" when sys.exit(1) is called.
ResolveParam(layer_name, jsn_params, prev) ==
    IF layer_name \in DOMAIN jsn_params
        THEN [exit |-> FALSE, val |-> prev]
    ELSE IF ReSearch("weight_ih", layer_name) /\ "iW" \in DOMAIN jsn_params
        THEN [exit |-> FALSE, val |-> TorchConcatenate(jsn_params["iW"])]
    ELSE IF ReSearch("weight_hh", layer_name) /\ "sW" \in DOMAIN jsn_params
        THEN [exit |-> FALSE, val |-> TorchConcatenate(jsn_params["sW"])]
    ELSE IF ReSearch("bias_ih", layer_name) /\ "b" \in DOMAIN jsn_params
        THEN [exit |-> FALSE, val |-> TorchConcatenate(jsn_params["b"])]
    ELSE IF ReSearch("bias_hh", layer_name)
        THEN [exit |-> FALSE, val |-> prev]
    ELSE IF ReSearch("weight", layer_name) /\ "W" \in DOMAIN jsn_params
        THEN [exit |-> FALSE, val |-> TorchArray(jsn_params["W"])]
    ELSE IF ReSearch("bias", layer_name) /\ "b" \in DOMAIN jsn_params
        THEN [exit |-> FALSE, val |-> TorchArray(jsn_params["b"])]
    ELSE [exit |-> TRUE, val |-> prev]

\* layer.load_state_dict(params_od, strict=True): the keys are the layer's own,
\* so only a size mismatch can fail
LoadStateDict(layer, params_od) ==
    IF \A n \in DOMAIN params_od : params_od[n].dim0 = layer.state[n].dim0
        THEN [outcome |-> "ok", layer |-> [layer EXCEPT !.state = params_od]]
        ELSE [outcome |-> "RuntimeError", layer |-> layer]

\* The loop of set_params over layer.state_dict().items(), from item i on.
RECURSIVE SetParamsLoop(_, _, _, _, _)
SetParamsLoop(layer, jsn_params, i, jsn_layer_params, params_od) ==
    IF i > Len(layer.names)
        THEN LoadStateDict(layer, params_od)
    ELSE LET layer_name == layer.names[i]
             r == ResolveParam(layer_name, jsn_params, jsn_layer_params)
         IN IF r.exit
                THEN [outcome |-> "exit1", layer |-> layer]
            ELSE IF r.val = Unbound
                THEN [outcome |-> "UnboundLocalError", layer |-> layer]
            ELSE SetParamsLoop(layer, jsn_params, i + 1, r.val,
                     [n \in DOMAIN params_od \cup {layer_name} |->
                         IF n = layer_name THEN r.val ELSE params_od[n]])

\* set_params(layer, jsn_params): [outcome, layer]
set_params(layer, jsn_params) ==
    SetParamsLoop(layer, jsn_params, 1, Unbound, <<>>)

\* a variant of the loop that steps curr_can_base by one per canonical base
RECURSIVE CollapseLoopStepOne(_, _, _, _, _)
CollapseLoopStepOne(output_alphabet, can_nmods, i, curr_can_base, collapse_alphabet) ==
    IF i > Len(can_nmods)
        THEN [outcome |-> "ok", collapse_alphabet |-> collapse_alphabet]
    ELSE IF curr_can_base + 1 > Len(output_alphabet)
        THEN [outcome |-> "IndexError", collapse_alphabet |-> collapse_alphabet]
    ELSE CollapseLoopStepOne(output_alphabet, can_nmods, i + 1,
             curr_can_base + 1,
             collapse_alphabet \o
                 [j \in 1..(can_nmods[i] + 1) |-> output_alphabet[curr_can_base + 1]])

\* The loop building collapse_alphabet from output_alphabet (a sequence of
\* characters, indexed from 0 in the code, from 1 here) and can_nmods, from
\* entry i of can_nmods on. Indexing past the end of a string raises IndexError.
RECURSIVE CollapseLoop(_, _, _, _, _)
CollapseLoop(output_alphabet, can_nmods, i, curr_can_base, collapse_alphabet) ==
    IF i > Len(can_nmods)
        THEN [outcome |-> "ok", collapse_alphabet |-> collapse_alphabet]
    ELSE IF curr_can_base + 1 > Len(output_alphabet)
        THEN [outcome |-> "IndexError", collapse_alphabet |-> collapse_alphabet]
    ELSE CollapseLoop(output_alphabet, can_nmods, i + 1,
             curr_can_base + can_nmods[i] + 1,
             collapse_alphabet \o
                 [j \in 1..(can_nmods[i] + 1) |-> output_alphabet[curr_can_base + 1]])

\* collapse_alphabet as parse_sublayer derives it for GlobalNormTwoStateCatMod
CollapseAlphabet(output_alphabet, can_nmods) ==
    CollapseLoop(output_alphabet, can_nmods, 1, 0, <<>>)

\* The layer objects parse_sublayer constructs: the names of state_dict(), in
\* order, each with a fresh tensor of the size the constructor was given.
NewLayer(kind, names, dim0) ==
    [kind |-> kind, names |-> names, state |-> [n \in Range(names) |-> InitTensor(dim0)]]

Convolution(size) == NewLayer("Convolution", <<"conv.weight", "conv.bias">>, size)

GruMod(size) ==
    NewLayer("GruMod",
             <<"cudnn_gru.weight_ih_l0", "cudnn_gru.weight_hh_l0",
               "cudnn_gru.bias_ih_l0", "cudnn_gru.bias_hh_l0">>, 3 * size)

Reverse(size) ==
    NewLayer("Reverse",
             <<"layer.cudnn_gru.weight_ih_l0", "layer.cudnn_gru.weight_hh_l0",
               "layer.cudnn_gru.bias_ih_l0", "layer.cudnn_gru.bias_hh_l0">>, 3 * size)

GlobalNormFlipFlop(size) ==
    NewLayer("GlobalNormFlipFlop", <<"linear.weight", "linear.bias">>, size)

GlobalNormFlipFlopCatMod(size) ==
    NewLayer("GlobalNormFlipFlopCatMod", <<"linear.weight", "linear.bias">>, size)

\* what a function that did not return yields: no layer
NoLayer == [kind |-> "none", names |-> <<>>, state |-> <<>>]

\* parse_sublayer(sublayer): [outcome, layer]
parse_sublayer(sublayer) ==
    IF sublayer.type = "convolution" THEN
        IF sublayer.activation # "tanh"
            THEN [outcome |-> "exit1", layer |-> NoLayer]
            ELSE set_params(Convolution(sublayer.size), sublayer.params)
    ELSE IF sublayer.type = "GruMod" THEN
        set_params(GruMod(sublayer.size), sublayer.params)
    ELSE IF sublayer.type = "reverse" THEN
        set_params(Reverse(sublayer.sublayers.size), sublayer.sublayers.params)
    ELSE IF sublayer.type = "GlobalNormTwoState" THEN
        set_params(GlobalNormFlipFlop(sublayer.size), sublayer.params)
    ELSE IF sublayer.type = "GlobalNormTwoStateCatMod" THEN
        IF CollapseAlphabet(sublayer.output_alphabet, sublayer.can_nmods).outcome # "ok"
            THEN [outcome |-> "IndexError", layer |-> NoLayer]
            ELSE set_params(GlobalNormFlipFlopCatMod(sublayer.size), sublayer.params)
    ELSE [outcome |-> "UnboundLocalError", layer |-> NoLayer]

\* set(layer_types).difference(COMPATIBLE_LAYERS)
IncompatibleFirstOnly(layers) ==
    IF Len(layers) = 0 THEN {} ELSE {layers[1].type} \ COMPATIBLE_LAYERS

IncompatibleTypes(layers) ==
    {layers[i].type : i \in 1..Len(layers)} \ COMPATIBLE_LAYERS

\* ---- main(): the up-front check of the layer types
MainCheck ==
    /\ main_pc = "check"
    /\ IF IncompatibleTypes(jsn_model) # {}
           THEN /\ main_pc' = "exited"
                /\ exit_status' = 1
           ELSE /\ main_pc' = "build"
                /\ exit_status' = exit_status
    /\ UNCHANGED <<jsn_model, network, parse_calls, output_written, uncaught>>
    /\ UNCHANGED convOthers

\* a variant of the loop that drops a layer that failed and goes on
MainParseSublayerSkipping ==
    /\ main_pc = "build"
    /\ parse_calls < Len(jsn_model)
    /\ LET r == parse_sublayer(jsn_model[parse_calls + 1])
       IN network' = IF r.outcome = "ok" THEN Append(network, r.layer) ELSE network
    /\ parse_calls' = parse_calls + 1
    /\ UNCHANGED <<jsn_model, main_pc, output_written, exit_status, uncaught>>
    /\ UNCHANGED convOthers

\* ---- main(): one item of the list comprehension over jsn_model['sublayers']
MainParseSublayer ==
    /\ main_pc = "build"
    /\ parse_calls < Len(jsn_model)
    /\ LET r == parse_sublayer(jsn_model[parse_calls + 1])
       IN CASE r.outcome = "ok" ->
                   /\ network' = Append(network, r.layer)
                   /\ UNCHANGED <<main_pc, exit_status, uncaught>>
            [] r.outcome = "exit1" ->
                   /\ main_pc' = "exited"
                   /\ exit_status' = 1
                   /\ UNCHANGED <<network, uncaught>>
            [] OTHER ->
                   /\ main_pc' = "raised"
                   /\ exit_status' = 1
                   /\ uncaught' = r.outcome
                   /\ UNCHANGED network
    /\ parse_calls' = parse_calls + 1
    /\ UNCHANGED <<jsn_model, output_written>>
    /\ UNCHANGED convOthers

\* ---- main(): Serial(...) of the layers, torch.save and return
MainSave ==
    /\ main_pc = "build"
    /\ parse_calls = Len(jsn_model)
    /\ output_written' = output_written + 1
    /\ main_pc' = "done"
    /\ exit_status' = 0
    /\ UNCHANGED <<jsn_model, network, parse_calls, uncaught>>
    /\ UNCHANGED convOthers

\* ---- the JSON documents main() is run on
LayerSize == 2

JsnArray(key, groups, rows) == [key |-> key, groups |-> groups, rows |-> rows]

\* params as the toolkit writes them for a feed-forward layer of the given size
ParamsWB(size) == [k \in {"W", "b"} |-> JsnArray(k, size, 1)]

\* params as the toolkit writes them for a GRU of the given size: three gates
ParamsGru(size) == [k \in {"iW", "sW", "b"} |-> JsnArray(k, 3, size)]

Restrict(f, S) == [k \in S |-> f[k]]

NoSublayers == [size |-> 0, params |-> <<>>]

Sublayer(type, activation, params, sublayers, output_alphabet, can_nmods) ==
    [type |-> type, activation |-> activation, size |-> LayerSize, params |-> params,
     sublayers |-> sublayers, output_alphabet |-> output_alphabet,
     can_nmods |-> can_nmods]

Sublayers ==
    { Sublayer("convolution", "tanh", ParamsWB(LayerSize), NoSublayers, <<>>, <<>>),
      Sublayer("convolution", "relu", ParamsWB(LayerSize), NoSublayers, <<>>, <<>>),
      Sublayer("convolution", "tanh", Restrict(ParamsWB(LayerSize), {"W"}),
               NoSublayers, <<>>, <<>>),
      Sublayer("convolution", "tanh", ParamsWB(LayerSize + 1), NoSublayers, <<>>, <<>>),
      Sublayer("GruMod", "tanh", ParamsGru(LayerSize), NoSublayers, <<>>, <<>>),
      Sublayer("GruMod", "tanh", Restrict(ParamsGru(LayerSize), {"iW", "sW"}),
               NoSublayers, <<>>, <<>>),
      Sublayer("reverse", "tanh", <<>>,
               [size |-> LayerSize, params |-> ParamsGru(LayerSize)], <<>>, <<>>),
      Sublayer("GlobalNormTwoState", "tanh", ParamsWB(LayerSize), NoSublayers, <<>>, <<>>),
      Sublayer("GlobalNormTwoState", "tanh", ParamsWB(LayerSize + 1),
               NoSublayers, <<>>, <<>>),
      Sublayer("GlobalNormTwoStateCatMod", "tanh", ParamsWB(LayerSize), NoSublayers,
               <<"A", "Z", "C", "G", "T">>, <<1, 0, 0, 0>>),
      Sublayer("GlobalNormTwoStateCatMod", "tanh", ParamsWB(LayerSize), NoSublayers,
               <<"A", "C", "G", "T">>, <<1, 0, 0, 0>>),
      Sublayer("bogus", "tanh", ParamsWB(LayerSize), NoSublayers, <<>>, <<>>) }

ConvInit ==
    /\ jsn_model \in SeqsUpTo(Sublayers, MaxLayers)
    /\ main_pc = "check"
    /\ network = <<>>
    /\ parse_calls = 0
    /\ output_written = 0
    /\ exit_status = "running"
    /\ uncaught = "none"

ConvIdle ==
    /\ jsn_model = <<>>
    /\ main_pc = "idle"
    /\ network = <<>>
    /\ parse_calls = 0
    /\ output_written = 0
    /\ exit_status = "running"
    /\ uncaught = "none"

\* ---- set_params on its own: any order of parameter names, any set of keys
ParamNames ==
    {"cudnn_gru.weight_ih_l0", "cudnn_gru.weight_hh_l0", "cudnn_gru.bias_ih_l0",
     "cudnn_gru.bias_hh_l0", "linear.weight", "linear.bias", "scale"}

JsnKeys == {"iW", "sW", "b", "W", "linear.weight", "cudnn_gru.bias_hh_l0"}

\* rows per gate of a grouped array; a parameter holds the three gates
GroupRows == 2

ParamDim0 == 3 * GroupRows

\* the array stored under each key: the grouped ones hold three groups
JsnParamsFull(bGrouped) ==
    [k \in JsnKeys |->
        IF k \in {"iW", "sW"} \/ (k = "b" /\ bGrouped)
            THEN JsnArray(k, 3, GroupRows)
            ELSE JsnArray(k, ParamDim0, 1)]

\* no call made yet
NoResult == [outcome |-> "none", layer |-> NoLayer]

SpInit ==
    /\ \E names \in SeqsNoRepeat(ParamNames, MaxParams) :
           /\ Len(names) > 0
           /\ sp_layer = NewLayer("any", names, ParamDim0)
    /\ \E keys \in SUBSET JsnKeys, bGrouped \in BOOLEAN :
           sp_jsn_params = Restrict(JsnParamsFull(bGrouped), keys)
    /\ sp_result = NoResult

SpIdle ==
    /\ sp_layer = NoLayer
    /\ sp_jsn_params = <<>>
    /\ sp_result = NoResult

SetParamsCall ==
    /\ sp_result = NoResult
    /\ sp_layer # NoLayer
    /\ sp_result' = set_params(sp_layer, sp_jsn_params)
    /\ UNCHANGED <<sp_layer, sp_jsn_params>>
    /\ UNCHANGED spOthers

\* ---- the collapse alphabet on its own
AlphabetChars == {"A", "Z", "C", "G", "T"}

NoCollapse == [outcome |-> "none", collapse_alphabet |-> <<>>]

CaInit ==
    /\ ca_output_alphabet \in SeqsNoRepeat(AlphabetChars, MaxAlphabet)
    /\ ca_can_nmods \in SeqsUpTo(0..MaxMods, MaxBases)
    /\ ca_result = NoCollapse

CaIdle ==
    /\ ca_output_alphabet = <<>>
    /\ ca_can_nmods = <<>>
    /\ ca_result = [outcome |-> "idle", collapse_alphabet |-> <<>>]

CollapseCall ==
    /\ ca_result = NoCollapse
    /\ ca_result' = CollapseAlphabet(ca_output_alphabet, ca_can_nmods)
    /\ UNCHANGED <<ca_output_alphabet, ca_can_nmods>>
    /\ UNCHANGED caOthers

\* ------------------------------------------------------------------ calibrator
\* Numbers are integers: accuracies in tenths (9 is 0.9), q scores in whole
\* units. Two values stand outside the numbers:
\* np.nan, a missing float
NaN == -999

\* Python's None, as read_fastqs stores it for a read without scores
PyNone == -998

IsNumber(x) == x \notin {NaN, PyNone}

\* --coverage_threshold, default 0.8, as the fraction CoverageNum / CoverageDen
CoverageNum == 8

CoverageDen == 10

\* --min_fastqscore, default 7.0
MinFastqScore == 7

\* ~np.isnan(accuracies), elementwise
NotNanMask(accuracies) == [i \in 1..Len(accuracies) |-> accuracies[i] # NaN]

\* alignment_lens.astype(float64) / fastq_lens.astype(float64) > min_coverage,
\* elementwise: x/0 is +inf, -inf or nan by the sign of x, and nan > y is False
CoverageMask(alignment_lens, fastq_lens) ==
    [i \in 1..Len(alignment_lens) |->
        IF fastq_lens[i] = 0
            THEN alignment_lens[i] > 0
            ELSE alignment_lens[i] * CoverageDen > CoverageNum * fastq_lens[i]]

\* fastqscores >= min_fastqscore, elementwise: nan >= y is False; an array that
\* holds None is an object array, and None >= y raises TypeError
ScoreMask(fastqscores) ==
    IF \E i \in 1..Len(fastqscores) : fastqscores[i] = PyNone
        THEN [outcome |-> "TypeError", mask |-> <<>>]
        ELSE [outcome |-> "ok",
              mask |-> [i \in 1..Len(fastqscores) |->
                           fastqscores[i] # NaN /\ fastqscores[i] >= MinFastqScore]]

\* a[mask]: the elements of a where mask is True, in order
RECURSIVE BoolIndex(_, _)
BoolIndex(a, mask) ==
    IF a = <<>> THEN <<>>
    ELSE LET rest == BoolIndex(Tail(a), Tail(mask))
         IN IF mask[1] THEN <<a[1]>> \o rest ELSE rest

Column(rows, field) == [i \in 1..Len(rows) |-> rows[i][field]]

\* filter_data(accuracies, fastqscores, fastq_lens, alignment_lens, 0.8, 7.0):
\* [outcome, accuracies, fastqscores, printed] with printed the three counts
filter_data(accuracies, fastqscores, fastq_lens, alignment_lens) ==
    LET f == NotNanMask(accuracies)
        g == CoverageMask(alignment_lens, fastq_lens)
        hr == ScoreMask(fastqscores)
        h == hr.mask
        fg == [i \in 1..Len(accuracies) |-> f[i] /\ g[i]]
        fgh == [i \in 1..Len(accuracies) |-> f[i] /\ g[i] /\ h[i]]
    IN IF hr.outcome # "ok"
           THEN [outcome |-> hr.outcome, accuracies |-> <<>>, fastqscores |-> <<>>,
                 printed |-> <<>>]
           ELSE [outcome |-> "ok",
                 accuracies |-> BoolIndex(accuracies, fgh),
                 fastqscores |-> BoolIndex(fastqscores, fgh),
                 printed |-> <<Len(BoolIndex(accuracies, f)),
                               Len(BoolIndex(accuracies, fg)),
                               Len(BoolIndex(accuracies, fgh))>>]

\* ---- the reads filter_data is called on: as main() builds them, a read
\* without scores has length 0 and the mean score None
FilterReads ==
    {[accuracy |-> a, fastqscore |-> q, fastq_len |-> fl, alignment_len |-> al] :
        a \in {NaN, 9}, q \in {6, 7, 8}, fl \in {5}, al \in {-1, 4, 5}}
    \cup
    {[accuracy |-> a, fastqscore |-> PyNone, fastq_len |-> 0, alignment_len |-> al] :
        a \in {NaN, 9}, al \in {-1, 4}}

NoFilter == [outcome |-> "none", accuracies |-> <<>>, fastqscores |-> <<>>, printed |-> <<>>]

FdInit ==
    /\ fd_reads \in SeqsUpTo(FilterReads, MaxFilterReads)
    /\ fd_result = NoFilter

FdIdle ==
    /\ fd_reads = <<>>
    /\ fd_result = [outcome |-> "idle", accuracies |-> <<>>, fastqscores |-> <<>>,
                    printed |-> <<>>]

FilterDataCall ==
    /\ fd_result = NoFilter
    /\ fd_result' = filter_data(Column(fd_reads, "accuracy"), Column(fd_reads, "fastqscore"),
                                Column(fd_reads, "fastq_len"),
                                Column(fd_reads, "alignment_len"))
    /\ UNCHANGED fd_reads
    /\ UNCHANGED fdOthers

\* np.argmax(a) for a non-empty float array: the first nan if there is one
\* (nan compares as the maximum), else the first occurrence of the maximum
NpArgmax(a) ==
    IF \E i \in 1..Len(a) : a[i] = NaN
        THEN CHOOSE i \in 1..Len(a) : a[i] = NaN /\ \A j \in 1..(i - 1) : a[j] # NaN
        ELSE CHOOSE i \in 1..Len(a) :
                 /\ \A j \in 1..Len(a) : a[j] <= a[i]
                 /\ \A j \in 1..(i - 1) : a[j] < a[i]

\* alignment_ids == fastq_id, elementwise
IdMask(alignment_ids, fastq_id) ==
    [i \in 1..Len(alignment_ids) |-> alignment_ids[i] = fastq_id]

\* one pass of the loop of merge_align_fastq_data: <<accuracy, length>> for fastq_id
MergeOne(fastq_id, alignment_ids, alignment_accuracies, alignment_lens) ==
    LET accuracies == BoolIndex(alignment_accuracies, IdMask(alignment_ids, fastq_id))
        lens == BoolIndex(alignment_lens, IdMask(alignment_ids, fastq_id))
    IN IF Len(accuracies) = 0 THEN <<NaN, -1>>
       ELSE IF Len(accuracies) = 1 THEN <<accuracies[1], lens[1]>>
       ELSE LET loc == NpArgmax(accuracies) IN <<accuracies[loc], lens[loc]>>

\* merge_align_fastq_data(...): [fastq_accuracies, fastq_alignment_lens]
merge_align_fastq_data(fastq_ids, alignment_ids, alignment_accuracies, alignment_lens) ==
    [fastq_accuracies |->
        [n \in 1..Len(fastq_ids) |->
            MergeOne(fastq_ids[n], alignment_ids, alignment_accuracies, alignment_lens)[1]],
     fastq_alignment_lens |->
        [n \in 1..Len(fastq_ids) |->
            MergeOne(fastq_ids[n], alignment_ids, alignment_accuracies, alignment_lens)[2]]]

\* ---- the arrays merge_align_fastq_data is called on
ReadIds == {"r1", "r2"}

AlignmentRows ==
    {[id |-> id, accuracy |-> a, len |-> l] :
        id \in ReadIds \cup {"r3"}, a \in {NaN, 5, 9}, l \in {3, 4}}

NoMerge == [fastq_accuracies |-> <<>>, fastq_alignment_lens |-> <<>>, called |-> FALSE]

MgInit ==
    /\ mg_fastq_ids \in SeqsNoRepeat(ReadIds, Cardinality(ReadIds))
    /\ mg_alignments \in SeqsUpTo(AlignmentRows, MaxAlignments)
    /\ mg_result = NoMerge

MgIdle ==
    /\ mg_fastq_ids = <<>>
    /\ mg_alignments = <<>>
    /\ mg_result = NoMerge

MergeCall ==
    /\ mg_result = NoMerge
    /\ LET r == merge_align_fastq_data(mg_fastq_ids, Column(mg_alignments, "id"),
                                       Column(mg_alignments, "accuracy"),
                                       Column(mg_alignments, "len"))
       IN mg_result' = [fastq_accuracies |-> r.fastq_accuracies,
                        fastq_alignment_lens |-> r.fastq_alignment_lens,
                        called |-> TRUE]
    /\ UNCHANGED <<mg_fastq_ids, mg_alignments>>
    /\ UNCHANGED mgOthers

\* ---- the __main__ block of the calibrator
\* an option that was not given (its default None)
NoArg == "<None>"

\* a name that no statement has assigned yet
Unassigned == "<unassigned>"

DirName == "dir"

FileNames == {"a.fastq", "b.fastq", "alignment_summary.txt", "notes.txt"}

\* fi.endswith('.fastq')
EndsWithFastq(fi) == fi \in {"a.fastq", "b.fastq"}

\* os.path.join(args.input_directory, fi)
PathJoin(d, fi) ==
    CASE fi = "a.fastq" -> "dir/a.fastq"
      [] fi = "b.fastq" -> "dir/b.fastq"
      [] fi = "alignment_summary.txt" -> "dir/alignment_summary.txt"
      [] OTHER -> "dir/notes.txt"

NoneList == [none |-> TRUE, files |-> <<>>]

ListOf(files) == [none |-> FALSE, files |-> files]

OverrideNotice == "Command-line argument fastq overrides directory list"

\* if args.input_directory is not None: list the directory (os.listdir gives
\* the names in any order), fail on no quality file, set the summary path
CliDirectory ==
    /\ cli_pc = "directory"
    /\ IF args.input_directory = NoArg
           THEN /\ cli_pc' = "fastq"
                /\ UNCHANGED <<fastqlist, alignment_summary_file, printed>>
           ELSE \E listed \in SeqsNoRepeat(dir_listing, Cardinality(dir_listing)) :
                    /\ Len(listed) = Cardinality(dir_listing)
                    /\ LET names == SelectSeq(listed, EndsWithFastq)
                           paths == [i \in 1..Len(names) |->
                                        PathJoin(args.input_directory, names[i])]
                       IN /\ fastqlist' = ListOf(paths)
                          /\ IF Len(paths) = 0
                                 THEN /\ cli_pc' = "raised"
                                      /\ UNCHANGED <<alignment_summary_file, printed>>
                                 ELSE /\ cli_pc' = "fastq"
                                      /\ printed' = printed \cup {"Getting q scores"}
                                      /\ alignment_summary_file' =
                                             PathJoin(args.input_directory,
                                                      "alignment_summary.txt")
    /\ UNCHANGED <<args, dir_listing, read_called, files_read>>
    /\ UNCHANGED cliOthers

\* a variant in which the directory's list is kept when there is one
CliFastqKeepingDirectory ==
    /\ cli_pc = "fastq"
    /\ IF args.fastq # NoArg
           THEN /\ fastqlist' = IF fastqlist.none THEN ListOf(<<args.fastq>>) ELSE fastqlist
                /\ printed' = printed \cup {OverrideNotice, "Calculating average q scores"}
           ELSE UNCHANGED <<fastqlist, printed>>
    /\ cli_pc' = "summary"
    /\ UNCHANGED <<args, dir_listing, alignment_summary_file, read_called, files_read>>
    /\ UNCHANGED cliOthers

\* if args.fastq is not None: the single file replaces the list; the notice is
\* printed when fastqlist is not None, tested after the assignment
CliFastq ==
    /\ cli_pc = "fastq"
    /\ IF args.fastq # NoArg
           THEN /\ fastqlist' = ListOf(<<args.fastq>>)
                /\ printed' = printed \cup {OverrideNotice, "Calculating average q scores"}
           ELSE UNCHANGED <<fastqlist, printed>>
    /\ cli_pc' = "summary"
    /\ UNCHANGED <<args, dir_listing, alignment_summary_file, read_called, files_read>>
    /\ UNCHANGED cliOthers

\* if args.alignment_summary is not None: it overrides the one in the directory
CliSummary ==
    /\ cli_pc = "summary"
    /\ IF args.alignment_summary # NoArg
           THEN /\ alignment_summary_file' = args.alignment_summary
                /\ printed' = printed \cup {"Using alignment summary file"}
           ELSE UNCHANGED <<alignment_summary_file, printed>>
    /\ cli_pc' = "check"
    /\ UNCHANGED <<args, dir_listing, fastqlist, read_called, files_read>>
    /\ UNCHANGED cliOthers

\* if fastqlist is None: raise
CliCheck ==
    /\ cli_pc = "check"
    /\ cli_pc' = IF fastqlist.none THEN "raised" ELSE "read"
    /\ UNCHANGED <<args, dir_listing, fastqlist, alignment_summary_file, printed,
                   read_called, files_read>>
    /\ UNCHANGED cliOthers

\* read_fastqs(fastqlist, args.maxreads)
CliReadFastqs ==
    /\ cli_pc = "read"
    /\ read_called' = TRUE
    /\ files_read' = fastqlist.files
    /\ cli_pc' = "align"
    /\ UNCHANGED <<args, dir_listing, fastqlist, alignment_summary_file, printed>>
    /\ UNCHANGED cliOthers

\* get_alignment_data(alignment_summary_file): a NameError when nothing set it
CliGetAlignmentData ==
    /\ cli_pc = "align"
    /\ cli_pc' = IF alignment_summary_file = Unassigned THEN "raised" ELSE "done"
    /\ UNCHANGED <<args, dir_listing, fastqlist, alignment_summary_file, printed,
                   read_called, files_read>>
    /\ UNCHANGED cliOthers

CliInit ==
    /\ args \in [input_directory : {NoArg, DirName},
                 fastq : {NoArg, "reads.fastq"},
                 alignment_summary : {NoArg, "summary.txt"}]
    /\ dir_listing \in SUBSET FileNames
    /\ args.input_directory = NoArg => dir_listing = {}
    /\ fastqlist = NoneList
    /\ alignment_summary_file = Unassigned
    /\ printed = {}
    /\ read_called = FALSE
    /\ files_read = <<>>
    /\ cli_pc = "directory"

CliIdle ==
    /\ args = [input_directory |-> NoArg, fastq |-> NoArg, alignment_summary |-> NoArg]
    /\ dir_listing = {}
    /\ fastqlist = NoneList
    /\ alignment_summary_file = Unassigned
    /\ printed = {}
    /\ read_called = FALSE
    /\ files_read = <<>>
    /\ cli_pc = "idle"

\* ---- get_alignment_data
GuppyColumns ==
    <<"read_id", "alignment_accuracy", "alignment_strand_end", "alignment_strand_start">>

TaiyakiColumns ==
    <<"query", "accuracy", "reference_end", "reference_start", "insertion", "deletion">>

AllColumns == Range(GuppyColumns) \cup Range(TaiyakiColumns)

\* t[name] for each name in turn: a name that is no field of the table raises
\* ValueError, and the names after it are not looked up
LookupRaises(columns, names) == \E i \in 1..Len(names) : names[i] \notin columns

\* accuracies[accuracies < 0] = np.nan
NegativeToNan(accuracies) ==
    [i \in 1..Len(accuracies) |-> IF accuracies[i] < 0 THEN NaN ELSE accuracies[i]]

GuppyData(rows) ==
    [outcome |-> "Guppy",
     read_ids |-> Column(rows, "read_id"),
     accuracies |-> NegativeToNan(Column(rows, "alignment_accuracy")),
     alignment_lens |-> [i \in 1..Len(rows) |->
                            rows[i].alignment_strand_end - rows[i].alignment_strand_start]]

TaiyakiData(rows) ==
    [outcome |-> "Taiyaki",
     read_ids |-> Column(rows, "query"),
     accuracies |-> Column(rows, "accuracy"),
     alignment_lens |-> [i \in 1..Len(rows) |->
                            rows[i].reference_end - rows[i].reference_start
                            + rows[i].insertion - rows[i].deletion]]

RaisedData == [outcome |-> "Exception", read_ids |-> <<>>, accuracies |-> <<>>,
               alignment_lens |-> <<>>]

\* a variant that tries the Taiyaki columns before the Guppy columns
get_alignment_data_taiyaki_first(columns, rows) ==
    IF ~LookupRaises(columns, TaiyakiColumns) THEN TaiyakiData(rows)
    ELSE IF ~LookupRaises(columns, GuppyColumns) THEN GuppyData(rows)
    ELSE RaisedData

\* get_alignment_data on the table t = (columns, rows)
get_alignment_data(columns, rows) ==
    IF ~LookupRaises(columns, GuppyColumns) THEN GuppyData(rows)
    ELSE IF ~LookupRaises(columns, TaiyakiColumns) THEN TaiyakiData(rows)
    ELSE RaisedData

\* the rows of the tables: the values of the columns that matter vary
TableRows ==
    {[read_id |-> "r1", alignment_accuracy |-> ga, alignment_strand_end |-> ge,
      alignment_strand_start |-> 2, query |-> "r2", accuracy |-> 8,
      reference_end |-> 6, reference_start |-> 1, insertion |-> ins, deletion |-> 2] :
        ga \in {-1, 9}, ge \in {7}, ins \in {0, 1}}

NoAlignmentData == [outcome |-> "none", read_ids |-> <<>>, accuracies |-> <<>>,
                    alignment_lens |-> <<>>]

GadInit ==
    /\ t_columns \in SUBSET AllColumns
    /\ t_rows \in SeqsUpTo(TableRows, MaxRows)
    /\ gad_result = NoAlignmentData

GadIdle ==
    /\ t_columns = {}
    /\ t_rows = <<>>
    /\ gad_result = [outcome |-> "idle", read_ids |-> <<>>, accuracies |-> <<>>,
                     alignment_lens |-> <<>>]

GetAlignmentDataCall ==
    /\ gad_result = NoAlignmentData
    /\ gad_result' = get_alignment_data(t_columns, t_rows)
    /\ UNCHANGED <<t_columns, t_rows>>
    /\ UNCHANGED gadOthers

\* ---- read_fastqs
\* fastq_file_qscore(qvector) for a vector of equal scores, the only vectors
\* read here: every error probability is 10^(-q/10), so is their mean, and the
\* score of the mean is q again
fastq_file_qscore(qvector) == qvector[1]

\* record.id of the record at a position: ids are unique over the files
RecordId(file, record) == <<file, record>>

\* len(read_id_list) >= maxreads, under "if maxreads is not None"
MaxReached(maxreads, n) == maxreads # PyNone /\ n >= maxreads

\* the body of the inner loop for one record, with the test that breaks out of
\* it; after that break the outer loop's test sees the same length and breaks
FqRecord ==
    /\ fq_pc = "loop"
    /\ fq_file <= Len(fq_fastqlist)
    /\ fq_record <= Len(fq_fastqlist[fq_file])
    /\ LET scores == fq_fastqlist[fq_file][fq_record]
       IN /\ read_id_list' = Append(read_id_list, RecordId(fq_file, fq_record))
          /\ length_list' = Append(length_list, Len(scores))
          /\ mean_qscore_list' =
                 Append(mean_qscore_list,
                        IF Len(scores) > 0 THEN fastq_file_qscore(scores) ELSE PyNone)
    /\ IF MaxReached(fq_maxreads, Len(read_id_list) + 1)
           THEN fq_pc' = "returned" /\ UNCHANGED fq_record
           ELSE fq_pc' = fq_pc /\ fq_record' = fq_record + 1
    /\ UNCHANGED <<fq_fastqlist, fq_maxreads, fq_file>>
    /\ UNCHANGED fqOthers

\* the inner loop has run out of records: the outer loop's test, then the next file
FqEndOfFile ==
    /\ fq_pc = "loop"
    /\ fq_file <= Len(fq_fastqlist)
    /\ fq_record > Len(fq_fastqlist[fq_file])
    /\ IF MaxReached(fq_maxreads, Len(read_id_list))
           THEN fq_pc' = "returned" /\ UNCHANGED <<fq_file, fq_record>>
           ELSE fq_pc' = fq_pc /\ fq_file' = fq_file + 1 /\ fq_record' = 1
    /\ UNCHANGED <<fq_fastqlist, fq_maxreads, read_id_list, mean_qscore_list, length_list>>
    /\ UNCHANGED fqOthers

\* the outer loop has run out of files: return the three arrays
FqReturn ==
    /\ fq_pc = "loop"
    /\ fq_file > Len(fq_fastqlist)
    /\ fq_pc' = "returned"
    /\ UNCHANGED <<fq_fastqlist, fq_maxreads, fq_file, fq_record, read_id_list,
                   mean_qscore_list, length_list>>
    /\ UNCHANGED fqOthers

\* the score vectors of the records: none, or two equal scores
ScoreVectors == {<<>>, <<20, 20>>}

FqInit ==
    /\ fq_fastqlist \in SeqsUpTo(SeqsUpTo(ScoreVectors, MaxRecords), MaxFiles)
    /\ fq_maxreads \in {PyNone} \cup 0..MaxMaxreads
    /\ fq_file = 1
    /\ fq_record = 1
    /\ read_id_list = <<>>
    /\ mean_qscore_list = <<>>
    /\ length_list = <<>>
    /\ fq_pc = "loop"

FqIdle ==
    /\ fq_fastqlist = <<>>
    /\ fq_maxreads = PyNone
    /\ fq_file = 1
    /\ fq_record = 1
    /\ read_id_list = <<>>
    /\ mean_qscore_list = <<>>
    /\ length_list = <<>>
    /\ fq_pc = "idle"

\* ---- single_read_accuracy_scatter, calculate_regression
\* accuracies are held in parts per AccuracyScale: AccuracyScale is accuracy 1
AccuracyScale == 100000

\* float('inf'): what -10 * log10(0) evaluates to
Infinity == 1000000

\* -log10(e / AccuracyScale) for an error e > 0 that is a power of ten
RECURSIVE MinusLog10(_)
MinusLog10(e) == IF e >= AccuracyScale THEN 0 ELSE 1 + MinusLog10(e * 10)

\* -10.0 * np.log10(1.0 - accuracy): np.log10(0.0) is -inf
EmpiricalScore(accuracy) ==
    IF accuracy = AccuracyScale THEN Infinity
    ELSE 10 * MinusLog10(AccuracyScale - accuracy)

\* y with no entry replaced
ClampNothing(y, max_alignment_score) == y

\* y[y > max_alignment_score] = max_alignment_score
ClampAbove(y, max_alignment_score) ==
    [i \in DOMAIN y |-> IF y[i] > max_alignment_score THEN max_alignment_score ELSE y[i]]

\* the positions of np.min(x) and np.max(x)
ArgMin(x) == CHOOSE i \in DOMAIN x : \A j \in DOMAIN x : x[i] <= x[j]

ArgMax(x) == CHOOSE i \in DOMAIN x : \A j \in DOMAIN x : x[i] >= x[j]

\* calc_qscores = c + m * mean_qscores at every point
OnALine(mean_qscores, calc_qscores, c, m) ==
    \A i \in DOMAIN mean_qscores : calc_qscores[i] = c + m * mean_qscores[i]

\* the line through the points of least and greatest mean_qscores
LineThrough(mean_qscores, calc_qscores) ==
    LET lo == ArgMin(mean_qscores)
        hi == ArgMax(mean_qscores)
        dx == mean_qscores[hi] - mean_qscores[lo]
        dy == calc_qscores[hi] - calc_qscores[lo]
        m  == dy \div dx
        c  == calc_qscores[lo] - m * mean_qscores[lo]
    IN <<c, m>>

\* the estimates a robust fit can give for points that are not on one line;
\* their values are not computed here
InexactParams == {<<c, m>> : c \in {0, 15}, m \in {1, 2}}

\* calculate_regression(mean_qscores, calc_qscores): the design matrix is a
\* column of ones followed by mean_qscores, so line.params is (constant,
\* coefficient of mean_qscores), returned as c, m.  Points on one line leave
\* no residual and the fit is that line.
calculate_regression(mean_qscores, calc_qscores) ==
    LET exact == LineThrough(mean_qscores, calc_qscores)
    IN IF OnALine(mean_qscores, calc_qscores, exact[1], exact[2])
       THEN {exact}
       ELSE InexactParams

NoFit == [x |-> <<>>, y |-> <<>>, params |-> <<>>]

NoPair == <<>>

\* lines 270-272: y and x
ScatterScores ==
    /\ sc_pc = "scores"
    /\ sc_y' = ClampAbove([i \in DOMAIN sc_accuracies |-> EmpiricalScore(sc_accuracies[i])],
                          sc_max_alignment_score)
    /\ sc_pc' = "fit"
    /\ UNCHANGED <<sc_accuracies, sc_meanqs, sc_max_alignment_score, sc_fit, sc_returned,
                   sc_report>>
    /\ UNCHANGED scOthers

\* line 276: c, m = calculate_regression(x, y)
ScatterFit ==
    /\ sc_pc = "fit"
    /\ \E params \in calculate_regression(sc_meanqs, sc_y) :
           sc_fit' = [x |-> sc_meanqs, y |-> sc_y, params |-> params]
    /\ sc_pc' = "return"
    /\ UNCHANGED <<sc_accuracies, sc_meanqs, sc_max_alignment_score, sc_y, sc_returned,
                   sc_report>>
    /\ UNCHANGED scOthers

\* line 287: return m, c
ScatterReturn ==
    /\ sc_pc = "return"
    /\ LET c == sc_fit.params[1]
           m == sc_fit.params[2]
       IN sc_returned' = <<m, c>>
    /\ sc_pc' = "report"
    /\ UNCHANGED <<sc_accuracies, sc_meanqs, sc_max_alignment_score, sc_y, sc_fit, sc_report>>
    /\ UNCHANGED scOthers

\* __main__: slope, intercept = single_read_accuracy_scatter(...), then the two prints
MainReport ==
    /\ sc_pc = "report"
    /\ LET slope == sc_returned[1]
           intercept == sc_returned[2]
       IN sc_report' = <<[name |-> "Best-fit slope (qscore_scale)", value |-> slope],
                         [name |-> "Best-fit shift (qscore_shift)", value |-> intercept]>>
    /\ sc_pc' = "done"
    /\ UNCHANGED <<sc_accuracies, sc_meanqs, sc_max_alignment_score, sc_y, sc_fit, sc_returned>>
    /\ UNCHANGED scOthers

\* the accuracies of the reads: 0, 0.9, 0.99, 0.9999, 0.99999 and 1
Accuracies == {0, 90000, 99000, 99990, 99999, AccuracyScale}

\* the mean quality scores of the reads
MeanQs == {0, 10}

\* the values of --max_alignment_score: its default and a lower one
MaxAlignmentScores == {20, 40}

\* the reads left by filter_data, with at least two different mean quality scores
ScInit ==
    /\ sc_accuracies \in SeqsUpTo(Accuracies, MaxScatterReads)
    /\ sc_meanqs \in {q \in SeqsUpTo(MeanQs, MaxScatterReads) :
                          Len(q) = Len(sc_accuracies) /\ Cardinality(Range(q)) > 1}
    /\ sc_max_alignment_score \in MaxAlignmentScores
    /\ sc_y = <<>>
    /\ sc_fit = NoFit
    /\ sc_returned = NoPair
    /\ sc_report = <<>>
    /\ sc_pc = "scores"

ScIdle ==
    /\ sc_accuracies = <<>>
    /\ sc_meanqs = <<>>
    /\ sc_max_alignment_score = 0
    /\ sc_y = <<>>
    /\ sc_fit = NoFit
    /\ sc_returned = NoPair
    /\ sc_report = <<>>
    /\ sc_pc = "idle"

\* ------------------------------------------------------------------ specifications
\* a run of the converter's main()
Init == ConvInit /\ SpIdle /\ CaIdle /\ FdIdle /\ MgIdle /\ CliIdle /\ GadIdle /\ FqIdle /\ ScIdle
Next == MainCheck \/ MainParseSublayer \/ MainSave
Spec == Init /\ [][Next]_vars

\* calls of set_params
InitSetParams == SpInit /\ ConvIdle /\ CaIdle /\ FdIdle /\ MgIdle /\ CliIdle /\ GadIdle /\ FqIdle /\ ScIdle
NextSetParams == SetParamsCall
SpecSetParams == InitSetParams /\ [][NextSetParams]_vars

\* derivations of the collapse alphabet
InitCollapse == CaInit /\ ConvIdle /\ SpIdle /\ FdIdle /\ MgIdle /\ CliIdle /\ GadIdle /\ FqIdle /\ ScIdle
NextCollapse == CollapseCall
SpecCollapse == InitCollapse /\ [][NextCollapse]_vars

\* calls of filter_data
InitFilter == FdInit /\ ConvIdle /\ SpIdle /\ CaIdle /\ MgIdle /\ CliIdle /\ GadIdle /\ FqIdle /\ ScIdle
NextFilter == FilterDataCall
SpecFilter == InitFilter /\ [][NextFilter]_vars

\* calls of merge_align_fastq_data
InitMerge == MgInit /\ ConvIdle /\ SpIdle /\ CaIdle /\ FdIdle /\ CliIdle /\ GadIdle /\ FqIdle /\ ScIdle
NextMerge == MergeCall
SpecMerge == InitMerge /\ [][NextMerge]_vars

\* the calibrator's command-line handling
InitCli == CliInit /\ ConvIdle /\ SpIdle /\ CaIdle /\ FdIdle /\ MgIdle /\ GadIdle /\ FqIdle /\ ScIdle
NextCli == CliDirectory \/ CliFastq \/ CliSummary \/ CliCheck \/ CliReadFastqs \/ CliGetAlignmentData
SpecCli == InitCli /\ [][NextCli]_vars

\* calls of get_alignment_data
InitAlignment == GadInit /\ ConvIdle /\ SpIdle /\ CaIdle /\ FdIdle /\ MgIdle /\ CliIdle /\ FqIdle /\ ScIdle
NextAlignment == GetAlignmentDataCall
SpecAlignment == InitAlignment /\ [][NextAlignment]_vars

\* runs of read_fastqs
InitFastq == FqInit /\ ConvIdle /\ SpIdle /\ CaIdle /\ FdIdle /\ MgIdle /\ CliIdle /\ GadIdle /\ ScIdle
NextFastq == FqRecord \/ FqEndOfFile \/ FqReturn
SpecFastq == InitFastq /\ [][NextFastq]_vars

\* calls of single_read_accuracy_scatter from __main__
InitScatter == ScInit /\ ConvIdle /\ SpIdle /\ CaIdle /\ FdIdle /\ MgIdle /\ CliIdle /\ GadIdle /\ FqIdle
NextScatter == ScatterScores \/ ScatterFit \/ ScatterReturn \/ MainReport
SpecScatter == InitScatter /\ [][NextScatter]_vars

\* ------------------------------------------------------------------ claims
HasIncompatibleType ==
    \E i \in 1..Len(jsn_model) : jsn_model[i].type \notin COMPATIBLE_LAYERS

\* C1: when the layer list holds a layer of a type outside COMPATIBLE_LAYERS, at
\* any position, main() ends with exit code 1 in its first step: parse_sublayer
\* is never called, no layer is constructed and nothing is written.
C1_IncompatibleTypeAbortsUpFront ==
    HasIncompatibleType =>
        /\ parse_calls = 0
        /\ network = <<>>
        /\ output_written = 0
        /\ main_pc # "check" => (main_pc = "exited" /\ exit_status = 1)

\* the offending layer is the last one, after supported layers, and main() has ended
C1_Witness ==
    /\ Len(jsn_model) >= 2
    /\ jsn_model[Len(jsn_model)].type \notin COMPATIBLE_LAYERS
    /\ \A i \in 1..(Len(jsn_model) - 1) : jsn_model[i].type \in COMPATIBLE_LAYERS
    /\ main_pc = "exited"
    /\ exit_status = 1

LayerFails(sublayer) == parse_sublayer(sublayer).outcome # "ok"

\* C2: the checkpoint is written at most once, and only after every layer of the
\* list was constructed and had its parameters set, in list order; a run that
\* returns has written it exactly once; as soon as a layer fails the run is over,
\* with nothing written, and sys.exit(1) gives exit code 1.
C2_NoPartialSuccess ==
    /\ output_written <= 1
    /\ main_pc = "done" => (output_written = 1 /\ exit_status = 0)
    /\ output_written = 1 =>
          /\ parse_calls = Len(jsn_model)
          /\ Len(network) = Len(jsn_model)
          /\ \A i \in 1..Len(jsn_model) :
                parse_sublayer(jsn_model[i]) = [outcome |-> "ok", layer |-> network[i]]
    /\ \A i \in 1..parse_calls :
          LayerFails(jsn_model[i]) =>
              /\ main_pc \in {"exited", "raised"}
              /\ parse_calls = i
              /\ output_written = 0
    /\ main_pc \in {"exited", "raised"} => (exit_status = 1 /\ output_written = 0)
    /\ (\E i \in 1..Len(jsn_model) : LayerFails(jsn_model[i])) => output_written = 0

\* a layer failed after an earlier one had been constructed: nothing is written
C2_Witness ==
    /\ Len(network) >= 1
    /\ parse_calls = Len(network) + 1
    /\ LayerFails(jsn_model[parse_calls])
    /\ main_pc \in {"exited", "raised"}
    /\ output_written = 0

SpCalled == sp_result # NoResult

\* C3: after set_params has set the layer, every required name that is itself a
\* key of the JSON params holds the JSON array stored under that key.
C3_ExactKeyGetsItsArray ==
    (SpCalled /\ sp_result.outcome = "ok") =>
        \A n \in Range(sp_layer.names) :
            n \in DOMAIN sp_jsn_params =>
                sp_result.layer.state[n].src = sp_jsn_params[n].key

\* C4: after set_params has set the layer, a bias_hh parameter that is no key
\* of the JSON params holds what it held before the call (the JSON arrays are
\* arbitrary, so holding one of them is not holding zero), whatever the order
\* of the layer's parameter names.
C4_BiasHhKeepsItsValue ==
    (SpCalled /\ sp_result.outcome = "ok") =>
        \A n \in Range(sp_layer.names) :
            (ReSearch("bias_hh", n) /\ n \notin DOMAIN sp_jsn_params) =>
                sp_result.layer.state[n] = sp_layer.state[n]

RECURSIVE SumSeq(_)
SumSeq(s) == IF s = <<>> THEN 0 ELSE s[1] + SumSeq(Tail(s))

\* 0-based position in output_alphabet of the i-th canonical base
CanBaseOffset(i) == SumSeq(SubSeq(ca_can_nmods, 1, i - 1)) + (i - 1)

CaCalled == ca_result.outcome \notin {"none", "idle"}

Count(s, x) == Cardinality({k \in 1..Len(s) : s[k] = x})

\* C5 as stated: for output_alphabet "ACGT" and can_nmods [1,0,0,0] the
\* construction completes with a string of length 5 holding "A" twice.
C5_Original ==
    (CaCalled /\ ca_output_alphabet = <<"A", "C", "G", "T">>
              /\ ca_can_nmods = <<1, 0, 0, 0>>) =>
        /\ ca_result.outcome = "ok"
        /\ Len(ca_result.collapse_alphabet) = 5
        /\ Count(ca_result.collapse_alphabet, "A") = 2

\* C5 amended: the construction completes exactly when every canonical base's
\* offset (the number of canonical and modified bases before it) lies inside
\* output_alphabet, and then the character at that offset is repeated
\* (its modification count + 1) times, giving len(can_nmods) + sum(can_nmods)
\* characters; "ACGT" with [1,0,0,0] raises IndexError, "AZCGT" with [1,0,0,0]
\* gives "AACGT", and "ACGT" with [0,0,0,0] gives "ACGT".
C5_CollapseAlphabet ==
    CaCalled =>
        /\ ca_result.outcome = "ok" <=>
              \A i \in 1..Len(ca_can_nmods) : CanBaseOffset(i) < Len(ca_output_alphabet)
        /\ ca_result.outcome # "ok" => ca_result.outcome = "IndexError"
        /\ ca_result.outcome = "ok" =>
              /\ Len(ca_result.collapse_alphabet)
                     = Len(ca_can_nmods) + SumSeq(ca_can_nmods)
              /\ \A i \in 1..Len(ca_can_nmods) :
                     \A k \in (CanBaseOffset(i) + 1)..(CanBaseOffset(i) + ca_can_nmods[i] + 1) :
                         ca_result.collapse_alphabet[k]
                             = ca_output_alphabet[CanBaseOffset(i) + 1]
        /\ (ca_output_alphabet = <<"A", "C", "G", "T">> /\ ca_can_nmods = <<1, 0, 0, 0>>)
              => ca_result.outcome = "IndexError"
        /\ (ca_output_alphabet = <<"A", "Z", "C", "G", "T">> /\ ca_can_nmods = <<1, 0, 0, 0>>)
              => ca_result.collapse_alphabet = <<"A", "A", "C", "G", "T">>
        /\ (ca_output_alphabet = <<"A", "C", "G", "T">> /\ ca_can_nmods = <<0, 0, 0, 0>>)
              => ca_result.collapse_alphabet = <<"A", "C", "G", "T">>

\* the loop has run on an alphabet that lists the modified base after its
\* canonical base, and "A" came out twice in a string of length 5
C5_Witness ==
    /\ ca_output_alphabet = <<"A", "Z", "C", "G", "T">>
    /\ ca_can_nmods = <<1, 0, 0, 0>>
    /\ ca_result.outcome = "ok"
    /\ Len(ca_result.collapse_alphabet) = 5
    /\ Count(ca_result.collapse_alphabet, "A") = 2

FdCalled == fd_result.outcome \notin {"none", "idle"}

\* alignment length / basecall length > threshold (a division by zero gives an
\* infinity with the sign of the alignment length, or nan for 0/0)
CoverageAbove(r) ==
    IF r.fastq_len = 0 THEN r.alignment_len > 0
    ELSE r.alignment_len * CoverageDen > CoverageNum * r.fastq_len

RetainedRead(r) ==
    /\ r.accuracy # NaN
    /\ CoverageAbove(r)
    /\ IsNumber(r.fastqscore) /\ r.fastqscore >= MinFastqScore

Aligned(r) == r.accuracy # NaN

AlignedCovered(r) == r.accuracy # NaN /\ CoverageAbove(r)

\* C6: filter_data returns exactly the reads with accuracy present, coverage
\* strictly above the threshold and mean score at least the minimum, the two
\* arrays index-aligned, and prints the sizes of the three cumulative filters,
\* which do not increase and end at the number of reads returned.
C6_FilterRetainsExactly ==
    FdCalled =>
        /\ fd_result.outcome = "ok"
        /\ fd_result.accuracies = Column(SelectSeq(fd_reads, RetainedRead), "accuracy")
        /\ fd_result.fastqscores = Column(SelectSeq(fd_reads, RetainedRead), "fastqscore")
        /\ Len(fd_result.accuracies) = Len(fd_result.fastqscores)
        /\ fd_result.printed = <<Len(SelectSeq(fd_reads, Aligned)),
                                 Len(SelectSeq(fd_reads, AlignedCovered)),
                                 Len(SelectSeq(fd_reads, RetainedRead))>>
        /\ fd_result.printed[1] >= fd_result.printed[2]
        /\ fd_result.printed[2] >= fd_result.printed[3]
        /\ fd_result.printed[3] = Len(fd_result.accuracies)

\* the rows of the alignment summary whose id is the given read id, in order
MatchingRows(id) == SelectSeq(mg_alignments, LAMBDA r : r.id = id)

\* the first row holding the largest accuracy present among the rows, or the
\* first row when no row holds an accuracy
MostAccurate(rows) ==
    IF \A i \in 1..Len(rows) : rows[i].accuracy = NaN THEN 1
    ELSE CHOOSE i \in 1..Len(rows) :
             /\ rows[i].accuracy # NaN
             /\ \A j \in 1..Len(rows) :
                    rows[j].accuracy # NaN => rows[j].accuracy <= rows[i].accuracy
             /\ \A j \in 1..(i - 1) :
                    rows[j].accuracy # NaN => rows[j].accuracy < rows[i].accuracy

\* C7: for every read id, at its own index: no matching row gives (nan, -1), one
\* gives that row's accuracy and length, several give those of the matching row
\* with the maximum accuracy (the first on ties), also when some rows hold no
\* accuracy; the outputs are as long as the list of read ids.
C7_MergeSelectsMostAccurate ==
    mg_result.called =>
        /\ Len(mg_result.fastq_accuracies) = Len(mg_fastq_ids)
        /\ Len(mg_result.fastq_alignment_lens) = Len(mg_fastq_ids)
        /\ \A n \in 1..Len(mg_fastq_ids) :
              LET rows == MatchingRows(mg_fastq_ids[n])
                  got == <<mg_result.fastq_accuracies[n], mg_result.fastq_alignment_lens[n]>>
              IN IF Len(rows) = 0 THEN got = <<NaN, -1>>
                 ELSE IF Len(rows) = 1 THEN got = <<rows[1].accuracy, rows[1].len>>
                 ELSE got = <<rows[MostAccurate(rows)].accuracy, rows[MostAccurate(rows)].len>>

BothGiven == args.fastq # NoArg /\ args.input_directory # NoArg

NeitherGiven == args.fastq = NoArg /\ args.input_directory = NoArg

DirHasFastq == \E fi \in dir_listing : EndsWithFastq(fi)

\* C8 as stated: with --fastq and --input_directory both given the run goes on
\* with exactly the single file, whatever the directory holds; with neither it
\* is fatal before any quality file is read.
C8_Original ==
    /\ BothGiven =>
          /\ cli_pc # "raised"
          /\ cli_pc \notin {"directory", "fastq"} =>
                 (fastqlist = ListOf(<<args.fastq>>) /\ OverrideNotice \in printed)
          /\ read_called => files_read = <<args.fastq>>
    /\ NeitherGiven =>
          /\ ~read_called
          /\ cli_pc \in {"directory", "fastq", "summary", "check", "raised"}

\* C8 amended: with both given and at least one .fastq file in the directory,
\* the single file replaces the directory's list, the notice is printed and
\* read_fastqs is called with exactly that file; with both given and no .fastq
\* file in the directory the run is fatal in the directory step, before the
\* single file is looked at; with neither given it is fatal before any read.
C8_FastqOverridesDirectory ==
    /\ (BothGiven /\ DirHasFastq) =>
          /\ cli_pc # "raised"
          /\ cli_pc \notin {"directory", "fastq"} =>
                 (fastqlist = ListOf(<<args.fastq>>) /\ OverrideNotice \in printed)
          /\ read_called => files_read = <<args.fastq>>
          /\ cli_pc \in {"align", "done"} => read_called
    /\ (BothGiven /\ ~DirHasFastq /\ cli_pc # "directory") =>
          /\ cli_pc = "raised"
          /\ ~read_called
          /\ OverrideNotice \notin printed
    /\ NeitherGiven =>
          /\ ~read_called
          /\ cli_pc \in {"directory", "fastq", "summary", "check", "raised"}

\* both options given, the directory holds two quality files, and read_fastqs
\* has been called with the single file alone
C8_Witness ==
    /\ BothGiven
    /\ {"a.fastq", "b.fastq"} \subseteq dir_listing
    /\ read_called
    /\ files_read = <<args.fastq>>
    /\ OverrideNotice \in printed

GadCalled == gad_result.outcome \notin {"none", "idle"}

HasGuppy ==
    {"read_id", "alignment_accuracy", "alignment_strand_end", "alignment_strand_start"}
        \subseteq t_columns

HasTaiyaki ==
    {"query", "accuracy", "reference_end", "reference_start", "insertion", "deletion"}
        \subseteq t_columns

RECURSIVE IdsFrom(_)
IdsFrom(i) ==
    IF i > Len(fq_fastqlist) THEN <<>>
    ELSE [r \in 1..Len(fq_fastqlist[i]) |-> RecordId(i, r)] \o IdsFrom(i + 1)

Min(a, b) == IF a <= b THEN a ELSE b

\* C10: with maxreads an integer >= 0, read_fastqs never holds more than
\* maxreads reads, returns the first min(maxreads, number of records) reads in
\* file-then-record order, and its three lists always have the same length.
C10_MaxreadsCaps ==
    /\ Len(mean_qscore_list) = Len(read_id_list)
    /\ Len(length_list) = Len(read_id_list)
    /\ fq_maxreads # PyNone =>
          /\ Len(read_id_list) <= fq_maxreads
          /\ fq_pc = "returned" =>
                 read_id_list = SubSeq(IdsFrom(1), 1, Min(fq_maxreads, Len(IdsFrom(1))))

ScFitted == sc_pc \in {"return", "report", "done"}

\* C11: every empirical quality score handed to the regression is at most
\* max_alignment_score: for every accuracy in [0, 1], accuracy exactly 1
\* included, the value used is min(-10*log10(1 - accuracy), max_alignment_score),
\* and a score at or below the maximum is the unclamped score itself
C11_ScoresClampedAtMaximum ==
    ScFitted =>
        /\ Len(sc_fit.y) = Len(sc_accuracies)
        /\ \A i \in 1..Len(sc_accuracies) :
               LET unclamped == EmpiricalScore(sc_accuracies[i])
               IN /\ sc_fit.y[i] <= sc_max_alignment_score
                  /\ sc_fit.y[i] = Min(unclamped, sc_max_alignment_score)
                  /\ unclamped <= sc_max_alignment_score => sc_fit.y[i] = unclamped

\* a fit whose scores include that of accuracy exactly 1, clamped, one equal to
\* the maximum and one below it, both as computed
C11_Witness ==
    /\ ScFitted
    /\ \E i, j, k \in 1..Len(sc_accuracies) :
           /\ sc_accuracies[i] = AccuracyScale
           /\ sc_fit.y[i] = sc_max_alignment_score
           /\ EmpiricalScore(sc_accuracies[j]) = sc_max_alignment_score
           /\ sc_fit.y[j] = sc_max_alignment_score
           /\ EmpiricalScore(sc_accuracies[k]) < sc_max_alignment_score
           /\ sc_fit.y[k] = EmpiricalScore(sc_accuracies[k])

ScReturned == sc_pc \in {"report", "done"}

\* C12: single_read_accuracy_scatter returns the pair (intercept, slope) in
\* that order, the order in which calculate_regression returns it, where the
\* fit is empirical = slope * predicted + intercept: the first entry is the
\* constant term and the second the coefficient of the mean quality score
C12_ReturnsInterceptThenSlope ==
    ScReturned =>
        LET intercept == sc_returned[1]
            slope == sc_returned[2]
        IN /\ sc_returned = sc_fit.params
           /\ OnALine(sc_fit.x, sc_fit.y, sc_fit.params[1], sc_fit.params[2])
                  => OnALine(sc_fit.x, sc_fit.y, intercept, slope)
====
